---- MODULE Spec2Model ----
(***************************************************************************)
(* portfolio-analysis: the window partitioner (getWindows), the windowed   *)
(* linear-regression CAGR (getLinearRegressionCAGR) and the statistics of  *)
(* main.mjs.                                                               *)
(*                                                                         *)
(* All are pure functions.  A behaviour is one call: Init draws the        *)
(* arguments from bounded sets, an action of a specification applies a     *)
(* function and records what it returned or threw.                         *)
(***************************************************************************)
EXTENDS Integers, Sequences, FiniteSets, TLC

VARIABLES pc, args, result, locals

vars == <<pc, args, result, locals>>

(***************************************************************************)
(* Bounds of the generic inputs.                                           *)
(***************************************************************************)
MaxLen == 3          \* longest generic series
MaxTime == 4         \* largest timestamp (ms) of a generic series
MaxWindowSize == 3   \* largest generic window size (ms)

(***************************************************************************)
(* JavaScript values.  A value carries its runtime type, so that typeof    *)
(* and instanceof checks are decided as the engine decides them.           *)
(***************************************************************************)
undefined == [type |-> "undefined"]
Num(n) == [type |-> "number", n |-> n]
Str(s) == [type |-> "string", s |-> s]
DateOf(t) == [type |-> "Date", time |-> t]
Arr(items) == [type |-> "array", items |-> items]
False == [type |-> "boolean", b |-> FALSE]
Fn == [type |-> "function"]

\* An observation object; id is the object's identity (its position in the
\* input array): filter() returns the very objects of the input.
Observation(k, date, value) == [id |-> k, date |-> date, value |-> value]

Returned(v) == [status |-> "returned", value |-> v]
\* throw new Error(msg); ThrownWith: an error whose message carries values
Thrown(msg) == [status |-> "thrown", error |-> [msg |-> msg]]
ThrownWith(error) == [status |-> "thrown", error |-> error]
NoResult == [status |-> "none"]

\* The constants a call has assigned when it ends, by name (none so far)
NoLocals == <<>>

(***************************************************************************)
(* getWindows (src/src/getWindows.mjs)                                     *)
(***************************************************************************)

\* overlapInMs = 0: the default of the third parameter
overlapDefault_omit1(overlapArg) ==
    IF overlapArg = undefined THEN Num(1) ELSE overlapArg

overlapDefault(overlapArg) ==
    IF overlapArg = undefined THEN Num(0) ELSE overlapArg

\* lines 14-17
dataIsArray(data) == data.type = "array"

dataHasValidValues(data) ==
    /\ dataIsArray(data)
    /\ \A k \in 1..Len(data.items) :
          /\ data.items[k].value.type = "number"
          /\ data.items[k].date.type = "Date"

\* The precondition checks, in the order of a different (wrong) build:
\* overlap before window size.
validate_overlapFirst(data, windowSizeInMs, overlapInMs) ==
    IF ~dataIsArray(data) \/ ~dataHasValidValues(data)
    THEN "array of objects"
    ELSE IF windowSizeInMs.type = "number" /\ overlapInMs.n >= windowSizeInMs.n
    THEN "smaller than window size"
    ELSE IF windowSizeInMs.type # "number" \/ windowSizeInMs.n <= 0
    THEN "positive number"
    ELSE "ok"

\* lines 18-26: the message of the first failing check, or "ok"
validate(data, windowSizeInMs, overlapInMs) ==
    IF ~dataIsArray(data) \/ ~dataHasValidValues(data)
    THEN "array of objects"
    ELSE IF windowSizeInMs.type # "number" \/ windowSizeInMs.n <= 0
    THEN "positive number"
    ELSE IF overlapInMs.n >= windowSizeInMs.n
    THEN "smaller than window size"
    ELSE "ok"

\* Math.ceil(a / b) for b > 0 (\div rounds towards minus infinity)
MathCeilDiv(a, b) == -((-a) \div b)

\* Array.from({ length }): ToLength clamps a negative length to 0
ToLength(n) == IF n < 0 THEN 0 ELSE n

\* line 30
segmentBaseLength(windowSizeInMs, overlapInMs) == windowSizeInMs - overlapInMs

\* line 31
amountOfWindows_plusOne(timeSeriesDuration, segment) ==
    (timeSeriesDuration \div segment) + 1

amountOfWindows(timeSeriesDuration, segment) ==
    MathCeilDiv(timeSeriesDuration, segment)

\* lines 35-36: the filter's predicate
inWindow_closedEnd(item, startTime, start, end) ==
    /\ item.date.time - startTime >= start
    /\ item.date.time - startTime <= end

inWindow(item, startTime, start, end) ==
    /\ item.date.time - startTime >= start
    /\ item.date.time - startTime < end

\* lines 32-37: Array.from({ length: amountOfWindows }, (value, index) => ...)
windowsFrom_dropEmpty(items, startTime, segment, windowSizeInMs, amount) ==
    LET all == [i \in 1..ToLength(amount) |->
                  LET start == (i - 1) * segment
                      end == start + windowSizeInMs
                      keep(item) == inWindow(item, startTime, start, end)
                  IN SelectSeq(items, keep)]
        nonEmpty(w) == w # <<>>
    IN SelectSeq(all, nonEmpty)

windowsFrom(items, startTime, segment, windowSizeInMs, amount) ==
    [i \in 1..ToLength(amount) |->
        LET start == (i - 1) * segment      \* index = i - 1
            end == start + windowSizeInMs
            keep(item) == inWindow(item, startTime, start, end)
        IN SelectSeq(items, keep)]

\* lines 13-38
getWindows(data, windowSizeInMs, overlapArg) ==
    LET overlapInMs == overlapDefault(overlapArg)
        failed == validate(data, windowSizeInMs, overlapInMs)
    IN IF failed # "ok" THEN Thrown(failed)
       \* data.at(0) is undefined for an empty array: reading .date throws
       ELSE IF Len(data.items) = 0 THEN Thrown("TypeError")
       ELSE LET startTime == data.items[1].date.time
                timeSeriesDuration ==
                    data.items[Len(data.items)].date.time - startTime
                segment == segmentBaseLength(windowSizeInMs.n, overlapInMs.n)
                amount == amountOfWindows(timeSeriesDuration, segment)
            IN Returned(windowsFrom(data.items, startTime, segment,
                                    windowSizeInMs.n, amount))

(***************************************************************************)
(* Inputs of getWindows.                                                   *)
(***************************************************************************)
\* The series whose k-th observation has timestamp times[k] (value 1).
SeriesOf(times) ==
    Arr([k \in 1..Len(times) |-> Observation(k, DateOf(times[k]), Num(1))])

GenericSeries ==
    { SeriesOf(ts) : ts \in UNION { [1..n -> 0..MaxTime] : n \in 0..MaxLen } }

\* getWindows(5), getWindows([{ date: 7, value: 3 }]) of the tests, and an
\* array whose second element has a string for a value
MalformedData ==
    { Num(5),
      Arr(<<Observation(1, Num(7), Num(3))>>),
      Arr(<<Observation(1, DateOf(0), Num(1)),
            Observation(2, DateOf(1), Str("1"))>>) }

WindowSizes == { Num(n) : n \in -1..MaxWindowSize } \cup { Str("500"), undefined }

Overlaps == { Num(n) : n \in -1..MaxWindowSize } \cup { undefined }

\* createData() of the getWindows tests: offsets 0,1,2,3,4,8 s, in ms since
\* the first observation's date
createData == SeriesOf(<<0, 1000, 2000, 3000, 4000, 8000>>)

GetWindowsArgs ==
    [data : GenericSeries \cup MalformedData,
     windowSizeInMs : WindowSizes,
     overlapInMs : Overlaps]
    \cup [data : {createData},
          windowSizeInMs : {Num(3000)},
          overlapInMs : {Num(1500), undefined}]

Init ==
    /\ pc = "call"
    /\ args \in GetWindowsArgs
    /\ result = NoResult
    /\ locals = NoLocals

GetWindows ==
    /\ pc = "call"
    /\ result' = getWindows(args.data, args.windowSizeInMs, args.overlapInMs)
    /\ pc' = "done"
    /\ UNCHANGED <<args, locals>>

Next == GetWindows

Spec == Init /\ [][Next]_vars

(***************************************************************************)
(* JavaScript numbers as exact rationals with NaN and the two infinities   *)
(* (rounding is left out; a zero has no sign and divides as +0).           *)
(***************************************************************************)
NaN == [k |-> "NaN"]

Infinity(s) == [k |-> "Infinity", sign |-> s]

Abs(n) == IF n < 0 THEN -n ELSE n

RECURSIVE GCD(_, _)
GCD(a, b) == IF b = 0 THEN a ELSE GCD(b, a % b)

\* n / d in lowest terms with a positive denominator (d # 0)
Finite(n, d) ==
    LET g == GCD(Abs(n), Abs(d))
        s == IF d < 0 THEN -1 ELSE 1
    IN [k |-> "finite", num |-> (s * n) \div g, den |-> (s * d) \div g]

FromInt(n) == Finite(n, 1)

IsNaN(x) == x.k = "NaN"

IsZero(x) == x.k = "finite" /\ x.num = 0

SignOf(x) ==
    IF x.k = "Infinity" THEN x.sign
    ELSE IF x.num < 0 THEN -1 ELSE 1

\* x + y
Add(x, y) ==
    IF IsNaN(x) \/ IsNaN(y) THEN NaN
    ELSE IF x.k = "Infinity" /\ y.k = "Infinity"
    THEN (IF x.sign = y.sign THEN x ELSE NaN)
    ELSE IF x.k = "Infinity" THEN x
    ELSE IF y.k = "Infinity" THEN y
    ELSE LET g == GCD(x.den, y.den)
         IN Finite(x.num * (y.den \div g) + y.num * (x.den \div g),
                   x.den * (y.den \div g))

\* x * y
Mul(x, y) ==
    IF IsNaN(x) \/ IsNaN(y) THEN NaN
    ELSE IF x.k = "Infinity" \/ y.k = "Infinity"
    THEN (IF IsZero(x) \/ IsZero(y) THEN NaN
          ELSE Infinity(SignOf(x) * SignOf(y)))
    ELSE LET g1 == GCD(Abs(x.num), y.den)
             g2 == GCD(Abs(y.num), x.den)
         IN Finite((x.num \div g1) * (y.num \div g2),
                   (x.den \div g2) * (y.den \div g1))

Neg(x) ==
    IF IsNaN(x) THEN NaN
    ELSE IF x.k = "Infinity" THEN Infinity(-x.sign)
    ELSE Finite(-x.num, x.den)

\* x - y
Sub(x, y) == Add(x, Neg(y))

\* x / y
Div(x, y) ==
    IF IsNaN(x) \/ IsNaN(y) THEN NaN
    ELSE IF y.k = "Infinity"
    THEN (IF x.k = "Infinity" THEN NaN ELSE FromInt(0))
    ELSE IF IsZero(y)
    THEN (IF IsZero(x) THEN NaN ELSE Infinity(SignOf(x)))
    ELSE IF x.k = "Infinity" THEN Infinity(SignOf(x) * SignOf(y))
    ELSE Mul(x, Finite(y.den, y.num))

(***************************************************************************)
(* helpers/getTimes.mjs.  Timestamps of the CAGR model are counted in      *)
(* quarters of a day (21 600 000 ms), so that a day is 4 and half a year   *)
(* is a whole number of ticks.                                             *)
(***************************************************************************)
dayInMs == 4

\* One tick of the model's clock in milliseconds: a day has 86 400 000 ms
TickInMs == 86400000 \div dayInMs

yearInMs == 365 * dayInMs

(***************************************************************************)
(* helpers/ensureArray.mjs                                                 *)
(***************************************************************************)
\* typeof
TypeOf(v) ==
    IF v.type \in {"Date", "array"} THEN "object" ELSE v.type

\* lines 69-75, listing only the first item of another type
ensureArray_firstOffender(data, type) ==
    IF data.type # "array"
    THEN ThrownWith([msg |-> "Expected parameter to be an array", got |-> data])
    ELSE IF type # ""
            /\ \E k \in 1..Len(data.items) : TypeOf(data.items[k]) # type
    THEN LET bad(item) == TypeOf(item) # type
             invalidItems == SubSeq(SelectSeq(data.items, bad), 1, 1)
         IN ThrownWith([msg |-> "Expected every item of array to be of type",
                        type |-> type,
                        items |-> invalidItems,
                        types |-> [j \in 1..Len(invalidItems) |->
                                     TypeOf(invalidItems[j])]])
    ELSE Returned(data)

\* type: a type name, or "" for a falsy type (no item check)
ensureArray(data, type) ==
    IF data.type # "array"
    THEN ThrownWith([msg |-> "Expected parameter to be an array", got |-> data])
    ELSE IF type # ""
            /\ \E k \in 1..Len(data.items) : TypeOf(data.items[k]) # type
    THEN LET bad(item) == TypeOf(item) # type
             invalidItems == SelectSeq(data.items, bad)
         IN ThrownWith([msg |-> "Expected every item of array to be of type",
                        type |-> type,
                        items |-> invalidItems,
                        types |-> [j \in 1..Len(invalidItems) |->
                                     TypeOf(invalidItems[j])]])
    ELSE Returned(data)

\* line 65: type = 'number', the default of an omitted second argument
typeDefault(type) == IF type.type = "undefined" THEN Str("number") ELSE type

\* line 69: if (type)
ToBoolean(v) ==
    IF v.type = "undefined" THEN FALSE
    ELSE IF v.type = "boolean" THEN v.b
    ELSE IF v.type = "string" THEN v.s # ""
    ELSE IF v.type = "number" THEN v.n # 0
    ELSE TRUE

\* lines 65-77, called with the second argument as the caller gave it (a
\* string, false, or undefined when omitted)
ensureArrayCall(data, type) ==
    ensureArray(data, IF ToBoolean(typeDefault(type)) THEN typeDefault(type).s ELSE "")

\* ensureArray('t'), ensureArray([]), ensureArray([5, 'y', 7, () => {}],
\* 'number') and arrays of up to MaxLen items of four types
ItemsOfAnyType == { Num(5), Str("y"), DateOf(0), Fn }

EnsureArrayData ==
    { Arr(items) : items \in UNION { [1..n -> ItemsOfAnyType] : n \in 0..MaxLen } }
        \cup { Arr(<<Num(5), Str("y"), Num(7), Fn>>), Str("t"), undefined, Num(5) }

EnsureArrayTypes == { undefined, Str("number"), Str("string"), Str("object"), False, Str("") }

InitEnsureArray ==
    /\ pc = "call"
    /\ args \in [data : EnsureArrayData, type : EnsureArrayTypes]
    /\ result = NoResult
    /\ locals = NoLocals

EnsureArray ==
    /\ pc = "call"
    /\ result' = ensureArrayCall(args.data, args.type)
    /\ pc' = "done"
    /\ UNCHANGED <<args, locals>>

NextEnsureArray == EnsureArray

SpecEnsureArray == InitEnsureArray /\ [][NextEnsureArray]_vars

(***************************************************************************)
(* SimpleLinearRegression of ml-regression-simple-linear: ordinary least   *)
(* squares; slope and intercept are NaN for fewer than two points.         *)
(***************************************************************************)
RECURSIVE SumOf(_)
SumOf(seq) ==
    IF seq = <<>> THEN FromInt(0)
    ELSE Add(SumOf(SubSeq(seq, 1, Len(seq) - 1)), seq[Len(seq)])

SimpleLinearRegression(x, y) ==
    LET n == FromInt(Len(x))
        xSum == SumOf(x)
        ySum == SumOf(y)
        xSquared == SumOf([j \in 1..Len(x) |-> Mul(x[j], x[j])])
        xY == SumOf([j \in 1..Len(x) |-> Mul(x[j], y[j])])
        numerator == Sub(Mul(n, xY), Mul(xSum, ySum))
        slope == Div(numerator, Sub(Mul(n, xSquared), Mul(xSum, xSum)))
        oneOverN == Div(FromInt(1), n)
        intercept == Sub(Mul(oneOverN, ySum), Mul(Mul(slope, oneOverN), xSum))
    IN [slope |-> slope, intercept |-> intercept]

(***************************************************************************)
(* getLinearRegressionCAGR (src/src/getLinearRegressionCAGR.mjs)           *)
(***************************************************************************)
LengthMismatch(dataLength, datesLength) ==
    [msg |-> "must match length of",
     dataLength |-> dataLength, datesLength |-> datesLength]

\* lines 18-20: "ok", or what the length check throws
checkLengths_onlyLonger(data, dates) ==
    LET a == ensureArray(data, "") IN
    IF a.status = "thrown" THEN a
    ELSE LET b == ensureArray(dates, "") IN
         IF b.status = "thrown" THEN b
         ELSE IF Len(a.value.items) > Len(b.value.items)
         THEN ThrownWith(LengthMismatch(Len(data.items), Len(dates.items)))
         ELSE Returned("ok")

\* The length check followed by the check of the order of the dates that an
\* earlier version of the function made
checkLengths_thenOrder(data, dates) ==
    LET a == ensureArray(data, "") IN
    IF a.status = "thrown" THEN a
    ELSE LET b == ensureArray(dates, "") IN
         IF b.status = "thrown" THEN b
         ELSE IF Len(a.value.items) # Len(b.value.items)
         THEN ThrownWith(LengthMismatch(Len(data.items), Len(dates.items)))
         ELSE IF /\ \A k \in 1..Len(dates.items) : dates.items[k].type = "Date"
                 /\ \E k \in 2..Len(dates.items) :
                        dates.items[k].time <= dates.items[k - 1].time
         THEN ThrownWith([msg |-> "to be after the previous item",
                          date |-> dates.items[
                              CHOOSE k \in 2..Len(dates.items) :
                                  dates.items[k].time <= dates.items[k - 1].time]])
         ELSE Returned("ok")

checkLengths(data, dates) ==
    LET a == ensureArray(data, "") IN
    IF a.status = "thrown" THEN a
    ELSE LET b == ensureArray(dates, "") IN
         IF b.status = "thrown" THEN b
         ELSE IF Len(a.value.items) # Len(b.value.items)
         THEN ThrownWith(LengthMismatch(Len(data.items), Len(dates.items)))
         ELSE Returned("ok")

\* line 22: dates[index] is undefined past the end of dates
mergedDataOf(data, dates) ==
    Arr([k \in 1..Len(data.items) |->
           Observation(k,
                       IF k <= Len(dates.items) THEN dates.items[k] ELSE undefined,
                       data.items[k])])

\* lines 26-28
xValuesOf(window) ==
    [j \in 1..Len(window) |->
        Div(FromInt(window[j].date.time - window[1].date.time), FromInt(yearInMs))]

\* line 29
yValuesOf(window) == [j \in 1..Len(window) |-> FromInt(window[j].value.n)]

\* lines 26-30: the regression of one window, with its inputs
regressionOf(window) ==
    LET xValues == xValuesOf(window)
        yValues == yValuesOf(window)
        r == SimpleLinearRegression(xValues, yValues)
    IN [xValues |-> xValues, yValues |-> yValues,
        slope |-> r.slope, intercept |-> r.intercept]

\* line 31, with the ratio of slope to intercept for the growth
growthRateOf_slopeOverIntercept(window) ==
    LET r == regressionOf(window)
    IN Div(r.slope, r.intercept)

\* lines 24-32
growthRateOf(window) ==
    LET r == regressionOf(window)
    IN Div(Add(r.intercept, r.slope), r.intercept)

\* lines 24-32: windows.map(...)
growthRatesOf(windows) == [i \in 1..Len(windows) |-> growthRateOf(windows[i])]

\* line 35, keeping every rate
isValidRate_keepAll(rate) == TRUE

\* line 35
isValidRate(rate) == ~IsNaN(rate)

\* lines 40-43: the weight of the rate at position index of the filtered
\* rates, read from windows[index]; .at(-1) of an empty window is undefined
partOfYearAt(windows, index) ==
    Div(FromInt(windows[index][Len(windows[index])].date.time
                 - windows[index][1].date.time),
        FromInt(yearInMs))

\* line 44
amountOfYearsOf(validGrowthRates) ==
    SumOf([j \in 1..Len(validGrowthRates) |-> validGrowthRates[j].partOfYear])

\* lines 46-48
weightedAverage_zeroWhenEmpty(validGrowthRates) ==
    IF Len(validGrowthRates) = 0 THEN FromInt(0)
    ELSE Div(SumOf([j \in 1..Len(validGrowthRates) |->
                      Mul(validGrowthRates[j].rate, validGrowthRates[j].partOfYear)]),
             amountOfYearsOf(validGrowthRates))

weightedAverage(validGrowthRates) ==
    Div(SumOf([j \in 1..Len(validGrowthRates) |->
                 Mul(validGrowthRates[j].rate, validGrowthRates[j].partOfYear)]),
        amountOfYearsOf(validGrowthRates))

\* lines 34-43: validGrowthRates, or the TypeError of windows[index].at(-1)
\* being undefined
validGrowthRatesOf(windows, growthRates) ==
    LET rates == SelectSeq(growthRates, isValidRate)
    IN IF \E j \in 1..Len(rates) : windows[j] = <<>>
       THEN Thrown("TypeError")
       ELSE Returned([j \in 1..Len(rates) |->
                        [rate |-> Sub(rates[j], FromInt(1)),
                         partOfYear |-> partOfYearAt(windows, j)]])

\* line 23: the partition of every call; half a year of overlap
windowSizeOfCAGR == yearInMs

overlapOfCAGR_quarter == yearInMs \div 4

overlapOfCAGR == yearInMs \div 2

\* lines 34-48: the aggregation, given the constants assigned so far and
\* validGrowthRates (or the TypeError thrown while it is built)
afterGrowthRates(soFar, valid) ==
    IF valid.status = "thrown"
    THEN [result |-> valid, locals |-> soFar]
    ELSE [result |-> Returned(weightedAverage(valid.value)),
          locals |-> [mergedData |-> soFar.mergedData,
                      windows |-> soFar.windows,
                      regressions |-> soFar.regressions,
                      growthRates |-> soFar.growthRates,
                      validGrowthRates |-> valid.value,
                      amountOfYears |-> amountOfYearsOf(valid.value)]]

\* lines 23-43: the windows of mergedData, or what getWindows throws
afterGetWindows(mergedData, got) ==
    IF got.status = "thrown"
    THEN [result |-> got, locals |-> [mergedData |-> mergedData]]
    ELSE afterGrowthRates(
             [mergedData |-> mergedData,
              windows |-> got.value,
              regressions |-> [i \in 1..Len(got.value) |-> regressionOf(got.value[i])],
              growthRates |-> growthRatesOf(got.value)],
             validGrowthRatesOf(got.value, growthRatesOf(got.value)))

\* lines 17-49: what the call returns or throws, and the constants it has
\* assigned by then
runGetLinearRegressionCAGR(data, dates) ==
    IF checkLengths(data, dates).status = "thrown"
    THEN [result |-> checkLengths(data, dates), locals |-> NoLocals]
    ELSE afterGetWindows(mergedDataOf(data, dates),
                         getWindows(mergedDataOf(data, dates),
                                    Num(windowSizeOfCAGR), Num(overlapOfCAGR)))

getLinearRegressionCAGR(data, dates) ==
    runGetLinearRegressionCAGR(data, dates).result

(***************************************************************************)
(* Inputs of getLinearRegressionCAGR.                                      *)
(***************************************************************************)
MaxObs == 3        \* longest series given to getLinearRegressionCAGR
MaxQuarter == 6    \* latest timestamp, in quarters of a year
MaxValue == 2      \* largest portfolio value

quarterYear == yearInMs \div 4

NumbersOf(ints) == Arr([k \in 1..Len(ints) |-> Num(ints[k])])

DatesOf(quarters) == Arr([k \in 1..Len(quarters) |-> DateOf(quarters[k] * quarterYear)])

IncreasingQuarters ==
    { qs \in UNION { [1..n -> 0..MaxQuarter] : n \in 0..MaxObs } :
        \A k \in 1..(Len(qs) - 1) : qs[k] < qs[k + 1] }

\* Equal lengths, timestamps strictly increasing
OrderedArgs ==
    { [data |-> NumbersOf(vs), dates |-> DatesOf(qs)] :
        <<qs, vs>> \in { <<qs, vs>> \in IncreasingQuarters
                                        \X UNION { [1..n -> 0..MaxValue] : n \in 0..MaxObs } :
                           Len(qs) = Len(vs) } }

\* Equal lengths, timestamps repeated or out of order (the k-th value is k)
UnorderedArgs ==
    { [data |-> NumbersOf([k \in 1..Len(qs) |-> k]), dates |-> DatesOf(qs)] :
        qs \in { qs \in UNION { [1..n -> 0..MaxQuarter] : n \in 2..MaxObs } :
                   \E k \in 1..(Len(qs) - 1) : qs[k] >= qs[k + 1] } }

\* Different lengths; ([], [2]) is the test's call
MismatchedArgs ==
    { [data |-> NumbersOf([k \in 1..n |-> 1]), dates |-> DatesOf([k \in 1..m |-> k])] :
        <<n, m>> \in { <<n, m>> \in (0..MaxObs) \X (0..MaxObs) : n # m } }
    \cup { [data |-> Arr(<<>>), dates |-> Arr(<<Num(2)>>)],
           [data |-> Arr(<<Str("a"), Num(1)>>), dates |-> Arr(<<Num(2)>>)] }

\* An argument that is no array, a value that is no number, a date that is
\* no Date
IllTypedArgs ==
    { [data |-> Num(5), dates |-> DatesOf(<<0>>)],
      [data |-> NumbersOf(<<1>>), dates |-> undefined],
      [data |-> Arr(<<Str("1")>>), dates |-> DatesOf(<<0>>)],
      [data |-> NumbersOf(<<1>>), dates |-> Arr(<<Num(2)>>)] }

\* A value that doubles within a year, as the first year of the tests'
\* createData(): 2 grows to 3 in half a year, 4 to 5 in a quarter
DoublingArgs ==
    { [data |-> NumbersOf(<<2, 3>>), dates |-> DatesOf(<<0, 2>>)],
      [data |-> NumbersOf(<<4, 5>>), dates |-> DatesOf(<<1, 2>>)] }

\* A gap of more than a year in the series: an empty window lies ahead of
\* a window of two observations
GapArgs ==
    { [data |-> NumbersOf(<<1, 1, 2>>), dates |-> DatesOf(<<0, 6, 7>>)],
      [data |-> NumbersOf(<<1, 2, 2, 3>>), dates |-> DatesOf(<<0, 1, 7, 8>>)] }

GetLinearRegressionCAGRArgs ==
    OrderedArgs \cup UnorderedArgs \cup MismatchedArgs \cup IllTypedArgs
        \cup DoublingArgs \cup GapArgs

InitCAGR ==
    /\ pc = "call"
    /\ args \in GetLinearRegressionCAGRArgs
    /\ result = NoResult
    /\ locals = NoLocals

GetLinearRegressionCAGR ==
    /\ pc = "call"
    /\ LET run == runGetLinearRegressionCAGR(args.data, args.dates)
       IN result' = run.result /\ locals' = run.locals
    /\ pc' = "done"
    /\ UNCHANGED args

NextCAGR == GetLinearRegressionCAGR

SpecCAGR == InitCAGR /\ [][NextCAGR]_vars

(***************************************************************************)
(* main.mjs (src/unnamed/part_001): getMaxAsSeries                         *)
(***************************************************************************)
\* -Infinity, the start value of the running maximum
MinusInfinity == [type |-> "number", infinite |-> "-"]

\* Math.max(a, b), with the item in place of the larger of the two
MathMax_second(a, b) == b

\* Math.max(a, b) of two numbers, a possibly -Infinity
MathMax(a, b) ==
    IF "infinite" \in DOMAIN a THEN b
    ELSE IF a.n >= b.n THEN a ELSE b

\* lines 16-18: reduce((prev, item) => [...prev, Math.max(prev.at(-1) ?? -Infinity, item)], [])
RECURSIVE maxReduce(_)
maxReduce(items) ==
    IF items = <<>> THEN <<>>
    ELSE LET prev == maxReduce(SubSeq(items, 1, Len(items) - 1))
             item == items[Len(items)]
             last == IF prev = <<>> THEN MinusInfinity ELSE prev[Len(prev)]
         IN Append(prev, MathMax(last, item))

\* lines 15-19
getMaxAsSeries(data) ==
    LET checked == ensureArray(data, "number")
    IN IF checked.status = "thrown" THEN checked
       ELSE Returned(maxReduce(checked.value.items))

\* Arrays of numbers, and arguments that ensureArray rejects
NumberSeries ==
    { NumbersOf(vs) :
        vs \in UNION { [1..n -> (-MaxValue)..MaxValue] : n \in 0..MaxLen } }

NotNumberSeries ==
    { Str("t"), undefined, Arr(<<Num(5), Str("y"), Num(7)>>), Arr(<<DateOf(0)>>) }

InitMaxAsSeries ==
    /\ pc = "call"
    /\ args \in [data : NumberSeries \cup NotNumberSeries]
    /\ result = NoResult
    /\ locals = NoLocals

GetMaxAsSeries ==
    /\ pc = "call"
    /\ result' = getMaxAsSeries(args.data)
    /\ pc' = "done"
    /\ UNCHANGED <<args, locals>>

NextMaxAsSeries == GetMaxAsSeries

SpecMaxAsSeries == InitMaxAsSeries /\ [][NextMaxAsSeries]_vars

(***************************************************************************)
(* main.mjs (src/unnamed/part_001): getCumulativeReturn, getCAGR           *)
(***************************************************************************)
\* lines 82-84: ensureArray(data) && (data.at(-1) / data.at(0)); the array
\* is truthy also when empty, and undefined / undefined is NaN
getCumulativeReturn(data) ==
    LET checked == ensureArray(data, "number")
    IN IF checked.status = "thrown" THEN checked
       ELSE IF Len(data.items) = 0 THEN Returned(NaN)
       ELSE Returned(Div(FromInt(data.items[Len(data.items)].n),
                         FromInt(data.items[1].n)))

\* lines 96-103 with > for >=: equal dates pass
checkDatesOfCAGR_allowEqual(startDate, endDate) ==
    IF startDate.type # "Date"
    THEN ThrownWith([msg |-> "must be an instance of Date",
                     name |-> "startDate", is |-> startDate])
    ELSE IF endDate.type # "Date"
    THEN ThrownWith([msg |-> "must be an instance of Date",
                     name |-> "endDate", is |-> endDate])
    ELSE IF startDate.time > endDate.time
    THEN ThrownWith([msg |-> "must lie before endDate",
                     startDate |-> startDate, endDate |-> endDate])
    ELSE Returned("ok")

\* lines 96-103
checkDatesOfCAGR(startDate, endDate) ==
    IF startDate.type # "Date"
    THEN ThrownWith([msg |-> "must be an instance of Date",
                     name |-> "startDate", is |-> startDate])
    ELSE IF endDate.type # "Date"
    THEN ThrownWith([msg |-> "must be an instance of Date",
                     name |-> "endDate", is |-> endDate])
    ELSE IF startDate.time >= endDate.time
    THEN ThrownWith([msg |-> "must lie before endDate",
                     startDate |-> startDate, endDate |-> endDate])
    ELSE Returned("ok")

\* line 105: base ** exponent - 1.  A power with a fractional exponent is
\* kept as the expression it is; NaN ** x is NaN for x # 0.
PowMinusOne(base, exponent) ==
    IF IsNaN(base) THEN NaN
    ELSE IF exponent = FromInt(1) THEN Sub(base, FromInt(1))
    ELSE [k |-> "pow - 1", base |-> base, exponent |-> exponent]

\* lines 95-106
getCAGR(data, startDate, endDate) ==
    LET checked == checkDatesOfCAGR(startDate, endDate)
    IN IF checked.status = "thrown" THEN checked
       ELSE LET diffInYears ==
                    Div(FromInt(endDate.time - startDate.time), FromInt(yearInMs))
                cumulative == getCumulativeReturn(data)
            IN IF cumulative.status = "thrown" THEN cumulative
               ELSE Returned(PowMinusOne(cumulative.value,
                                         Div(FromInt(1), diffInYears)))

\* getCAGR(createTestData()), getCAGR(createTestData(), new Date()) and the
\* like: a date that is missing or no Date, dates on a quarter-year grid
DateArgs ==
    { undefined, Num(7), Str("2023-01-01") }
        \cup { DateOf(q * quarterYear) : q \in 0..MaxQuarter }

DataOfCAGR ==
    { NumbersOf(vs) : vs \in UNION { [1..n -> 1..MaxValue] : n \in 0..2 } }
        \cup { Num(5), Arr(<<Num(1), Str("y")>>) }

InitGetCAGR ==
    /\ pc = "call"
    /\ args \in [data : DataOfCAGR, startDate : DateArgs, endDate : DateArgs]
    /\ result = NoResult
    /\ locals = NoLocals

GetCAGR ==
    /\ pc = "call"
    /\ result' = getCAGR(args.data, args.startDate, args.endDate)
    /\ pc' = "done"
    /\ UNCHANGED <<args, locals>>

NextGetCAGR == GetCAGR

SpecGetCAGR == InitGetCAGR /\ [][NextGetCAGR]_vars

(***************************************************************************)
(* main.mjs (src/unnamed/part_001): the statistics of a series of values.  *)
(* A behaviour is one call of one of the functions; pc names the function  *)
(* that was called.                                                        *)
(***************************************************************************)
\* x < y, false when either is NaN
LessThan(x, y) ==
    IF IsNaN(x) \/ IsNaN(y) THEN FALSE
    ELSE IF x = y THEN FALSE
    ELSE IF x.k = "Infinity" THEN x.sign = -1
    ELSE IF y.k = "Infinity" THEN y.sign = 1
    ELSE x.num * y.den < y.num * x.den

\* line 130 with <= for <
IsNegative_orZero(x) == LessThan(x, FromInt(0)) \/ IsZero(x)

\* line 130: item < 0
IsNegative(x) == LessThan(x, FromInt(0))

\* Math.min(...numbers): Infinity without arguments, NaN if one is NaN
RECURSIVE MathMin(_)
MathMin(numbers) ==
    IF numbers = <<>> THEN Infinity(1)
    ELSE LET rest == MathMin(SubSeq(numbers, 1, Len(numbers) - 1))
             last == numbers[Len(numbers)]
         IN IF IsNaN(rest) \/ IsNaN(last) THEN NaN
            ELSE IF LessThan(last, rest) THEN last ELSE rest

\* The integer square root
ISqrt(n) == CHOOSE r \in 0..n : r * r <= n /\ (r + 1) * (r + 1) > n

\* Math.sqrt(x); the root of a number that is no square of a rational is
\* kept as the expression it is
MathSqrt(x) ==
    IF IsNaN(x) THEN NaN
    ELSE IF x.k = "Infinity" THEN (IF x.sign = 1 THEN x ELSE NaN)
    ELSE IF x.num < 0 THEN NaN
    ELSE IF ISqrt(x.num) * ISqrt(x.num) = x.num /\ ISqrt(x.den) * ISqrt(x.den) = x.den
    THEN Finite(ISqrt(x.num), ISqrt(x.den))
    ELSE [k |-> "sqrt", of |-> x]

\* x / root, where root is what MathSqrt gave
OverRoot(x, root) ==
    IF root.k # "sqrt" THEN Div(x, root)
    ELSE IF IsNaN(x) THEN NaN
    ELSE IF x.k = "Infinity" \/ IsZero(x) THEN x
    ELSE [k |-> "quotient", num |-> x, den |-> root]

\* lines 26-29
getRelativeDrawdownAsSeries(data) ==
    LET max == getMaxAsSeries(data)
    IN IF max.status = "thrown" THEN max
       ELSE Returned([i \in 1..Len(data.items) |->
                        Sub(Div(FromInt(data.items[i].n), FromInt(max.value[i].n)),
                            FromInt(1))])

\* lines 37-39
getMaxRelativeDrawdown(data) ==
    LET series == getRelativeDrawdownAsSeries(data)
    IN IF series.status = "thrown" THEN series
       ELSE Returned(MathMin(series.value))

\* lines 47-50: data[-1] is undefined, and item / undefined is NaN
getRelativeChangeAsSeries(data) ==
    LET checked == ensureArray(data, "number")
    IN IF checked.status = "thrown" THEN checked
       ELSE Returned([i \in 1..Len(data.items) |->
                        IF i = 1 THEN NaN
                        ELSE Sub(Div(FromInt(data.items[i].n),
                                     FromInt(data.items[i - 1].n)),
                                 FromInt(1))])

\* lines 57-59, of an array of numbers: reduce without an initial value
\* throws a TypeError for []
getAverage(numbers) ==
    IF Len(numbers) = 0 THEN Thrown("TypeError")
    ELSE Returned(Div(SumOf(numbers), FromInt(Len(numbers))))

\* lines 69-74
getRelativeTimeInMarket(data) ==
    LET changes == getRelativeChangeAsSeries(data)
    IN IF changes.status = "thrown" THEN changes
       ELSE Returned(Sub(FromInt(1),
                         Div(FromInt(Len(SelectSeq(changes.value, IsZero))),
                             FromInt(Len(data.items) - 1))))

\* array.slice(1)
SliceFromOne(numbers) == SubSeq(numbers, 2, Len(numbers))

\* lines 134-139, given the returns after the first and the negative ones
sortinoOf(returns, downs) ==
    OverRoot(getAverage(returns).value,
             MathSqrt(Div(SumOf([j \in 1..Len(downs) |-> Mul(downs[j], downs[j])]),
                          FromInt(Len(downs)))))

\* lines 125-140
getSortino(data) ==
    LET returns == getRelativeChangeAsSeries(data)
    IN IF returns.status = "thrown" THEN returns
       ELSE IF Len(SelectSeq(SliceFromOne(returns.value), IsNegative)) = 0
       THEN Returned(FromInt(0))
       ELSE Returned(sortinoOf(SliceFromOne(returns.value),
                               SelectSeq(SliceFromOne(returns.value), IsNegative)))

InitSeries ==
    /\ pc = "call"
    /\ args \in [data : NumberSeries \cup NotNumberSeries]
    /\ result = NoResult
    /\ locals = NoLocals

GetRelativeDrawdownAsSeries ==
    /\ pc = "call"
    /\ result' = getRelativeDrawdownAsSeries(args.data)
    /\ pc' = "getRelativeDrawdownAsSeries"
    /\ UNCHANGED <<args, locals>>

GetMaxRelativeDrawdown ==
    /\ pc = "call"
    /\ result' = getMaxRelativeDrawdown(args.data)
    /\ pc' = "getMaxRelativeDrawdown"
    /\ UNCHANGED <<args, locals>>

GetRelativeTimeInMarket ==
    /\ pc = "call"
    /\ result' = getRelativeTimeInMarket(args.data)
    /\ pc' = "getRelativeTimeInMarket"
    /\ UNCHANGED <<args, locals>>

GetCumulativeReturn ==
    /\ pc = "call"
    /\ result' = getCumulativeReturn(args.data)
    /\ pc' = "getCumulativeReturn"
    /\ UNCHANGED <<args, locals>>

GetSortino ==
    /\ pc = "call"
    /\ result' = getSortino(args.data)
    /\ pc' = "getSortino"
    /\ UNCHANGED <<args, locals>>

NextSeries ==
    \/ GetRelativeDrawdownAsSeries
    \/ GetMaxRelativeDrawdown
    \/ GetRelativeTimeInMarket
    \/ GetCumulativeReturn
    \/ GetSortino

SpecSeries == InitSeries /\ [][NextSeries]_vars

(***************************************************************************)
(* The call under way, as the claims about getWindows speak of it.         *)
(***************************************************************************)
Done == pc = "done"

Items == args.data.items

WellFormedSeries ==
    /\ args.data.type = "array"
    /\ \A k \in 1..Len(Items) :
          Items[k].value.type = "number" /\ Items[k].date.type = "Date"

WindowSizeIsPositiveNumber ==
    args.windowSizeInMs.type = "number" /\ args.windowSizeInMs.n > 0

WindowSize == args.windowSizeInMs.n

OverlapOmitted == args.overlapInMs = undefined

Overlap == IF OverlapOmitted THEN 0 ELSE args.overlapInMs.n

Stride == WindowSize - Overlap

\* The stated preconditions of getWindows
ValidArgs ==
    WellFormedSeries /\ WindowSizeIsPositiveNumber /\ Overlap < WindowSize

NonEmptySeries == Len(Items) >= 1

Offset(k) == Items[k].date.time - Items[1].date.time

\* T: the last observation's timestamp minus the first's
TotalSpan == Offset(Len(Items))

NonDecreasing == \A k \in 1..(Len(Items) - 1) : Items[k].date.time <= Items[k + 1].date.time

StrictlyIncreasing == \A k \in 1..(Len(Items) - 1) : Items[k].date.time < Items[k + 1].date.time

HasReturned == Done /\ result.status = "returned"

\* The positions of the observations whose offset lies in the interval of
\* window index i (0-based): [i*stride, i*stride + windowSize)
MembersOfInterval(i) ==
    { k \in 1..Len(Items) :
        i * Stride <= Offset(k) /\ Offset(k) < i * Stride + WindowSize }

IdsOf(window) == { window[j].id : j \in 1..Len(window) }

\* C1: the window at index i holds exactly the observations whose offset
\* lies in [i*stride, i*stride + windowSize), in input order.
C1_WindowContents ==
    HasReturned =>
        \A i \in 1..Len(result.value) :
            LET w == result.value[i] IN
            /\ Len(w) = Cardinality(MembersOfInterval(i - 1))
            /\ \A j \in 1..Len(w) :
                  w[j].id \in MembersOfInterval(i - 1) /\ w[j] = Items[w[j].id]
            /\ \A j \in 1..(Len(w) - 1) : w[j].id < w[j + 1].id

\* The six windows of the test 'returns windows'.
C1_Witness ==
    /\ HasReturned
    /\ args.data = createData
    /\ args.overlapInMs = Num(1500)
    /\ [i \in 1..Len(result.value) |->
          [j \in 1..Len(result.value[i]) |-> result.value[i][j].id]]
       = << <<1, 2, 3>>, <<3, 4, 5>>, <<4, 5>>, <<>>, <<6>>, <<6>> >>

\* C2: for a non-empty series with non-decreasing timestamps the number of
\* windows is ceil(T / stride): the least n with n * stride >= T.
C2_WindowCount ==
    (Done /\ ValidArgs /\ NonEmptySeries /\ NonDecreasing) =>
        /\ result.status = "returned"
        /\ LET n == Len(result.value) IN
           /\ n * Stride >= TotalSpan
           /\ n > 0 => (n - 1) * Stride < TotalSpan

C2_Witness ==
    /\ HasReturned /\ NonDecreasing
    /\ TotalSpan = 3 /\ Stride = 2
    /\ Len(result.value) = 2

\* C3 (as claimed): with strictly increasing timestamps and
\* 0 <= overlap < windowSize the last window's interval ends after the last
\* observation's offset, and the last observation is in some window.
C3_LastObservationCovered ==
    (Done /\ ValidArgs /\ NonEmptySeries /\ StrictlyIncreasing /\ Overlap >= 0) =>
        /\ result.status = "returned"
        /\ (Len(result.value) - 1) * Stride + WindowSize > TotalSpan
        /\ \E i \in 1..Len(result.value) : Len(Items) \in IdsOf(result.value[i])

\* C4 (as claimed): at least one window for every valid non-empty series;
\* a single observation gives one window holding it.
C4_AtLeastOneWindow ==
    (Done /\ ValidArgs /\ NonEmptySeries /\ NonDecreasing) =>
        /\ result.status = "returned"
        /\ Len(result.value) >= 1
        /\ Len(Items) = 1 => result.value = << Items >>

\* C5: an interval without observations is an empty window at its own
\* index; the number of windows is that of the series made of the two end
\* points alone, and window k holds the members of interval k.
C5_EmptyWindowsKept ==
    HasReturned =>
        /\ LET ends == SeriesOf(<<Items[1].date.time, Items[Len(Items)].date.time>>)
               other == getWindows(ends, args.windowSizeInMs, args.overlapInMs)
           IN other.status = "returned" /\ Len(other.value) = Len(result.value)
        /\ \A k \in 1..Len(result.value) :
              IdsOf(result.value[k]) = MembersOfInterval(k - 1)

\* An empty window between two windows that are not empty.
C5_Witness ==
    /\ HasReturned
    /\ \E k \in 2..(Len(result.value) - 1) :
          /\ result.value[k] = <<>>
          /\ result.value[k - 1] # <<>>
          /\ result.value[k + 1] # <<>>

\* C6: the precondition checks throw, in the order data, window size,
\* overlap, also for the empty array.
C6_ValidationOrder ==
    Done =>
        /\ ~WellFormedSeries => result = Thrown("array of objects")
        /\ (WellFormedSeries /\ ~WindowSizeIsPositiveNumber)
              => result = Thrown("positive number")
        /\ (WellFormedSeries /\ WindowSizeIsPositiveNumber /\ Overlap >= WindowSize)
              => result = Thrown("smaller than window size")

\* getWindows([], w, o) with o >= w > 0 fails with the overlap error.
C6_Witness ==
    /\ Done
    /\ args.data = Arr(<<>>)
    /\ WindowSizeIsPositiveNumber /\ Overlap >= WindowSize
    /\ result = Thrown("smaller than window size")

\* C7 (as claimed): a call that meets the preconditions returns windows and
\* raises no error, the empty array included.
C7_NoErrorOnValidArgs ==
    (Done /\ ValidArgs) => result.status = "returned"

\* C8: with the overlap omitted the call behaves as with overlap 0: window i
\* covers [i*windowSize, (i+1)*windowSize) and no observation is in two
\* windows.
C8_OverlapDefaultsToZero ==
    (Done /\ OverlapOmitted) =>
        /\ result = getWindows(args.data, args.windowSizeInMs, Num(0))
        /\ result.status = "returned" =>
              /\ \A i \in 1..Len(result.value) : \A j \in 1..Len(result.value[i]) :
                    LET off == result.value[i][j].date.time - Items[1].date.time IN
                    (i - 1) * WindowSize <= off /\ off < i * WindowSize
              /\ \A i, k \in 1..Len(result.value) :
                    i # k => IdsOf(result.value[i]) \cap IdsOf(result.value[k]) = {}

\* The three windows of the test 'overlap defaults to 0'.
C8_Witness ==
    /\ HasReturned
    /\ args.data = createData
    /\ OverlapOmitted
    /\ [i \in 1..Len(result.value) |->
          [j \in 1..Len(result.value[i]) |-> result.value[i][j].id]]
       = << <<1, 2, 3>>, <<4, 5>>, <<6>> >>

(***************************************************************************)
(* The call under way, as the claims about getLinearRegressionCAGR speak   *)
(* of it.                                                                  *)
(***************************************************************************)
BothArrays == args.data.type = "array" /\ args.dates.type = "array"

DataItems == args.data.items

DateItems == args.dates.items

\* Numeric values and Date timestamps, as many of the one as of the other
WellFormedCAGRInput ==
    /\ BothArrays
    /\ Len(DataItems) = Len(DateItems)
    /\ \A k \in 1..Len(DataItems) : DataItems[k].type = "number"
    /\ \A k \in 1..Len(DateItems) : DateItems[k].type = "Date"

DatesStrictlyIncreasing ==
    \A k \in 1..(Len(DateItems) - 1) : DateItems[k].time < DateItems[k + 1].time

DateOffset(k) == DateItems[k].time - DateItems[1].time

\* The observations in the one-year interval that starts i half-years after
\* the first observation
MembersOfYear(i) ==
    { k \in 1..Len(DateItems) :
        /\ i * (yearInMs \div 2) <= DateOffset(k)
        /\ DateOffset(k) < i * (yearInMs \div 2) + yearInMs }

NoWindowWithTwoObservations ==
    \A i \in 0..(DateOffset(Len(DateItems)) \div (yearInMs \div 2)) :
        Cardinality(MembersOfYear(i)) <= 1

C10_NaNWithoutRetainedWindow ==
    (/\ Done
     /\ WellFormedCAGRInput
     /\ Len(DataItems) >= 1
     /\ DatesStrictlyIncreasing
     /\ NoWindowWithTwoObservations) => result = Returned(NaN)

\* Two observations a year or more apart: two windows, one observation each
C10_Witness ==
    /\ Done
    /\ WellFormedCAGRInput
    /\ Len(DataItems) >= 2
    /\ DatesStrictlyIncreasing
    /\ NoWindowWithTwoObservations
    /\ result = Returned(NaN)

(***************************************************************************)
(* The stages of a getLinearRegressionCAGR call, read from its constants.  *)
(***************************************************************************)
HasWindows == Done /\ "windows" \in DOMAIN locals

HasValidGrowthRates == Done /\ "validGrowthRates" \in DOMAIN locals

\* The windows whose growth rate is not NaN, and the j-th of them
KeptWindows ==
    { i \in 1..Len(locals.growthRates) : locals.growthRates[i].k # "NaN" }

NthKept(j) ==
    CHOOSE i \in KeptWindows : Cardinality({ m \in KeptWindows : m < i }) = j - 1

\* C11: a window with fewer than two observations has rate NaN; the rates
\* that enter the aggregate are the rates that are not NaN (less 1), in
\* window order, and no others.
C11_OnlyNaNRatesExcluded ==
    /\ HasWindows =>
          \A i \in 1..Len(locals.windows) :
              Len(locals.windows[i]) < 2 => locals.growthRates[i] = NaN
    /\ HasValidGrowthRates =>
          /\ Len(locals.validGrowthRates) = Cardinality(KeptWindows)
          /\ \A j \in 1..Len(locals.validGrowthRates) :
                /\ Len(locals.windows[NthKept(j)]) >= 2
                /\ locals.validGrowthRates[j].rate
                      = Sub(locals.growthRates[NthKept(j)], FromInt(1))

\* A call that aggregates, with an excluded window and a kept one.
C11_Witness ==
    /\ HasValidGrowthRates
    /\ \E i \in 1..Len(locals.windows) : Len(locals.windows[i]) = 1
    /\ \E i \in 1..Len(locals.windows) : locals.windows[i] = <<>>
    /\ KeptWindows # {}

\* The time from the first to the last observation of a window, in years
SpanInYears(window) ==
    Finite(window[Len(window)].date.time - window[1].date.time, yearInMs)

\* C12 (as claimed): the weight paired with the rate of a retained window
\* is that window's own span in years.
C12_WeightFromSameWindow ==
    (HasValidGrowthRates /\ DatesStrictlyIncreasing) =>
        \A j \in 1..Len(locals.validGrowthRates) :
            locals.validGrowthRates[j].partOfYear
                = SpanInYears(locals.windows[NthKept(j)])

\* The rate (less 1) and the span of the j-th retained window
RetainedRate(j) == Sub(locals.growthRates[NthKept(j)], FromInt(1))

RetainedSpan(j) == SpanInYears(locals.windows[NthKept(j)])

WeightedAverageOfRetained ==
    LET n == Cardinality(KeptWindows) IN
    Div(SumOf([j \in 1..n |-> Mul(RetainedRate(j), RetainedSpan(j))]),
        SumOf([j \in 1..n |-> RetainedSpan(j)]))

\* C13 (as claimed): the value returned is the average of the retained
\* windows' rates weighted by their spans; with one retained window of
\* positive span it is that window's rate.
C13_WeightedAverage ==
    (HasValidGrowthRates /\ DatesStrictlyIncreasing) =>
        /\ result = Returned(WeightedAverageOfRetained)
        /\ (Cardinality(KeptWindows) = 1 /\ RetainedSpan(1).num > 0)
              => result = Returned(RetainedRate(1))

\* C14 (as claimed): an observation a year or more after the first is in
\* exactly two of the windows.
C14_TwoWindowsAfterFirstYear ==
    (HasWindows /\ DatesStrictlyIncreasing) =>
        \A k \in 1..Len(DateItems) :
            DateOffset(k) >= yearInMs =>
                Cardinality({ i \in 1..Len(locals.windows) :
                                k \in IdsOf(locals.windows[i]) }) = 2

\* y - (intercept + slope * x) of the j-th point of a regression
Residual(reg, j) ==
    Sub(reg.yValues[j], Add(reg.intercept, Mul(reg.slope, reg.xValues[j])))

HasTwoTimes(window) == \E j \in 1..Len(window) : window[j].date.time # window[1].date.time

\* C15: for a window of two or more observations x is the time since the
\* window's first observation in years, slope and intercept are the least
\* squares fit of value against x, and the rate is
\* (intercept + slope) / intercept (less 1 in the aggregate): 1 when the
\* fitted value doubles over a year, 0 for a constant non-zero window.
C15_RegressionRate ==
    HasWindows =>
        \A i \in 1..Len(locals.windows) :
            LET w == locals.windows[i]
                reg == locals.regressions[i]
                n == Len(w)
            IN n >= 2 =>
                /\ \A j \in 1..n :
                      /\ reg.xValues[j]
                            = Finite(w[j].date.time - w[1].date.time, yearInMs)
                      /\ reg.yValues[j] = FromInt(w[j].value.n)
                /\ reg.xValues[1] = FromInt(0)
                /\ HasTwoTimes(w) =>
                      /\ reg.slope.k = "finite" /\ reg.intercept.k = "finite"
                      /\ SumOf([j \in 1..n |-> Residual(reg, j)]) = FromInt(0)
                      /\ SumOf([j \in 1..n |-> Mul(reg.xValues[j], Residual(reg, j))])
                            = FromInt(0)
                /\ locals.growthRates[i]
                      = Div(Add(reg.intercept, reg.slope), reg.intercept)
                /\ (/\ HasTwoTimes(w)
                    /\ w[1].value.n # 0
                    /\ \A j \in 1..n : w[j].value.n = w[1].value.n)
                      => Sub(locals.growthRates[i], FromInt(1)) = FromInt(0)
                /\ (/\ reg.intercept.k = "finite" /\ reg.intercept.num # 0
                    /\ reg.slope = reg.intercept)
                      => Sub(locals.growthRates[i], FromInt(1)) = FromInt(1)

\* A retained window whose fitted value doubles over one year: rate 1.
C15_Witness ==
    /\ HasValidGrowthRates
    /\ \E j \in 1..Len(locals.validGrowthRates) :
          LET reg == locals.regressions[NthKept(j)] IN
          /\ Len(locals.windows[NthKept(j)]) >= 2
          /\ reg.intercept.k = "finite" /\ reg.intercept.num # 0
          /\ reg.slope = reg.intercept
          /\ locals.validGrowthRates[j].rate = FromInt(1)

\* C16: a day is 86 400 000 ms, a year 365 days (31 536 000 000 ms, stated
\* in seconds), and every call partitions into one-year windows that start
\* half a year apart, whatever the input.
C16_YearWindowsHalfYearStride ==
    /\ dayInMs * TickInMs = 86400000
    /\ yearInMs = 365 * dayInMs
    /\ yearInMs * (TickInMs \div 1000) = 31536000
    /\ HasWindows =>
          LET halfYear == yearInMs \div 2
              n == Len(locals.windows)
              T == DateOffset(Len(DateItems))
          IN /\ 2 * halfYear = yearInMs
             /\ n * halfYear >= T
             /\ n > 0 => (n - 1) * halfYear < T
             /\ \A i \in 1..n : IdsOf(locals.windows[i]) = MembersOfYear(i - 1)

\* Three windows or more, one of them with two observations.
C16_Witness ==
    /\ HasWindows
    /\ Len(locals.windows) >= 3
    /\ \E i \in 1..Len(locals.windows) : Len(locals.windows[i]) >= 2

C19_DateChecksFirst ==
    Done =>
        /\ args.startDate.type # "Date" =>
              /\ result.status = "thrown"
              /\ result.error.msg = "must be an instance of Date"
              /\ result.error.name = "startDate"
        /\ (args.startDate.type = "Date" /\ args.endDate.type # "Date") =>
              /\ result.status = "thrown"
              /\ result.error.msg = "must be an instance of Date"
              /\ result.error.name = "endDate"
        /\ (/\ args.startDate.type = "Date" /\ args.endDate.type = "Date"
            /\ args.startDate.time >= args.endDate.time) =>
              /\ result.status = "thrown"
              /\ result.error.msg = "must lie before endDate"

\* Equal dates with data that is no array: the date error comes first.
C19_Witness ==
    /\ Done
    /\ args.data = Num(5)
    /\ args.startDate.type = "Date" /\ args.endDate = args.startDate
    /\ result.status = "thrown"
    /\ result.error.msg = "must lie before endDate"

\* C20: getMaxAsSeries returns, for an array of numbers, an array of the
\* same length whose i-th element is the maximum of the first i items.
C20_RunningMaximum ==
    (Done /\ args.data.type = "array"
          /\ \A k \in 1..Len(args.data.items) : args.data.items[k].type = "number") =>
        /\ result.status = "returned"
        /\ Len(result.value) = Len(args.data.items)
        /\ \A i \in 1..Len(result.value) :
              /\ \E j \in 1..i : result.value[i] = args.data.items[j]
              /\ \A j \in 1..i : result.value[i].n >= args.data.items[j].n
        /\ \A i \in 1..(Len(result.value) - 1) :
              result.value[i].n <= result.value[i + 1].n

\* A series that falls after its maximum: the maximum is carried on.
C20_Witness ==
    /\ Done /\ result.status = "returned"
    /\ Len(result.value) >= 3
    /\ args.data.items[2].n > args.data.items[1].n
    /\ args.data.items[3].n < args.data.items[2].n
    /\ result.value[3] = args.data.items[2]

(***************************************************************************)
(* The call under way, as the claims about the statistics of main.mjs      *)
(* speak of it.                                                            *)
(***************************************************************************)
IsArrayOfNumbers ==
    /\ args.data.type = "array"
    /\ \A k \in 1..Len(args.data.items) : args.data.items[k].type = "number"

Values == [k \in 1..Len(args.data.items) |-> args.data.items[k].n]

\* x <= 0
AtMostZero(x) ==
    \/ x.k = "finite" /\ x.num <= 0
    \/ x.k = "Infinity" /\ x.sign = -1

\* C21: every element of getRelativeDrawdownAsSeries(data) is <= 0 and
\* getMaxRelativeDrawdown(data) is <= 0, for every array of numbers.
C21_DrawdownAtMostZero ==
    IsArrayOfNumbers =>
        /\ pc = "getRelativeDrawdownAsSeries" =>
              /\ result.status = "returned"
              /\ \A i \in 1..Len(result.value) : AtMostZero(result.value[i])
        /\ pc = "getMaxRelativeDrawdown" =>
              /\ result.status = "returned"
              /\ AtMostZero(result.value)

\* The number of entries after the first that equal their predecessor
Unchanged == Cardinality({ i \in 2..Len(Values) : Values[i] = Values[i - 1] })

\* C22: for n >= 2 entries getRelativeTimeInMarket returns 1 - u / (n - 1),
\* u the number of entries after the first that equal their predecessor.
C22_TimeInMarket ==
    (pc = "getRelativeTimeInMarket" /\ IsArrayOfNumbers /\ Len(Values) >= 2) =>
        /\ result.status = "returned"
        /\ result.value = Finite(Len(Values) - 1 - Unchanged, Len(Values) - 1)

(***************************************************************************)
(* The call under way, as the claim about ensureArray speaks of it.        *)
(***************************************************************************)
\* The type the items are compared with; "number" when omitted
ExpectedType ==
    IF args.type.type = "undefined" THEN "number"
    ELSE IF args.type.type = "string" THEN args.type.s
    ELSE "none"

TypeIsTruthy ==
    \/ args.type.type = "undefined"
    \/ args.type.type = "string" /\ args.type.s # ""

\* The positions of the items whose typeof differs from the expected type
Offenders ==
    { i \in 1..Len(args.data.items) : TypeOf(args.data.items[i]) # ExpectedType }

NthOffender(j) ==
    CHOOSE i \in Offenders : Cardinality({ o \in Offenders : o < i }) = j - 1

\* C23: ensureArray throws for data that is no array; with a truthy type
\* (default 'number') it throws iff some item has another typeof, naming
\* exactly those items in input order with their types; with a falsy type
\* no item is checked; otherwise it returns the array it was given.
C23_EnsureArray ==
    Done =>
        /\ args.data.type # "array" =>
              /\ result.status = "thrown"
              /\ result.error.msg = "Expected parameter to be an array"
              /\ result.error.got = args.data
        /\ (args.data.type = "array" /\ TypeIsTruthy /\ Offenders # {}) =>
              /\ result.status = "thrown"
              /\ result.error.msg = "Expected every item of array to be of type"
              /\ result.error.type = ExpectedType
              /\ Len(result.error.items) = Cardinality(Offenders)
              /\ Len(result.error.types) = Cardinality(Offenders)
              /\ \A j \in 1..Cardinality(Offenders) :
                    /\ result.error.items[j] = args.data.items[NthOffender(j)]
                    /\ result.error.types[j] = TypeOf(args.data.items[NthOffender(j)])
        /\ (args.data.type = "array" /\ (~TypeIsTruthy \/ Offenders = {})) =>
              result = Returned(args.data)

\* The test's call ensureArray([5, 'y', 7, () => {}], 'number'): items y and
\* the function, types string and function.
C23_Witness ==
    /\ Done
    /\ args.data = Arr(<<Num(5), Str("y"), Num(7), Fn>>)
    /\ args.type = Str("number")
    /\ result.status = "thrown"
    /\ result.error.items = <<Str("y"), Fn>>
    /\ result.error.types = <<"string", "function">>

(***************************************************************************)
(* The remaining claims about the statistics of main.mjs.                  *)
(***************************************************************************)
\* C24: getCumulativeReturn(data) is the fractional return from the first
\* to the last item, (last - first) / first: 0.2 for a rise of 20 %, 0 when
\* the last item equals the first.
C24_FractionalReturn ==
    (pc = "getCumulativeReturn" /\ IsArrayOfNumbers /\ Len(Values) >= 1
        /\ Values[1] # 0) =>
        /\ result.status = "returned"
        /\ result.value = Finite(Values[Len(Values)] - Values[1], Values[1])

(***************************************************************************)
(* The remaining claims about getLinearRegressionCAGR.                     *)
(***************************************************************************)
\* 0 < x <= 1
InZeroToOne(x) ==
    /\ x.k = "finite"
    /\ 0 < x.num
    /\ x.num <= x.den

\* C25: with strictly increasing timestamps every aggregated growth sample
\* has a weight in (0, 1], so the denominator is 0 only when no window is
\* retained.
C25_WeightsInZeroToOne ==
    (HasValidGrowthRates /\ WellFormedCAGRInput /\ DatesStrictlyIncreasing) =>
        /\ \A j \in 1..Len(locals.validGrowthRates) :
              InZeroToOne(locals.validGrowthRates[j].partOfYear)
        /\ IsZero(locals.amountOfYears) => Len(locals.validGrowthRates) = 0

\* C26: with at least one observation, numeric values and strictly
\* increasing Date timestamps of the same number the call returns a number
\* (NaN included) and does not throw.
C26_NeverThrowsOnValidInput ==
    (Done /\ WellFormedCAGRInput /\ Len(DataItems) >= 1 /\ DatesStrictlyIncreasing) =>
        /\ result.status = "returned"
        /\ result.value.k \in {"NaN", "finite", "Infinity"}

(***************************************************************************)
(* getSortino, as its claim speaks of it.                                  *)
(***************************************************************************)
\* The relative change of entry i (i >= 2) against its predecessor
ChangeAt(i) ==
    Sub(Div(FromInt(Values[i]), FromInt(Values[i - 1])), FromInt(1))

\* x < 0
BelowZero(x) ==
    \/ x.k = "finite" /\ x.num < 0
    \/ x.k = "Infinity" /\ x.sign = -1

\* The entries whose change against the predecessor is negative
Falls == { i \in 2..Len(Values) : BelowZero(ChangeAt(i)) }

\* The mean of the changes after the first entry
MeanChange ==
    Div(SumOf([j \in 1..(Len(Values) - 1) |-> ChangeAt(j + 1)]),
        FromInt(Len(Values) - 1))

\* The mean of the squares of the negative changes
MeanSquareOfFalls ==
    Div(SumOf([j \in 1..(Len(Values) - 1) |->
                 IF (j + 1) \in Falls
                 THEN Mul(ChangeAt(j + 1), ChangeAt(j + 1))
                 ELSE FromInt(0)]),
        FromInt(Cardinality(Falls)))

\* No entry is smaller than its predecessor
ValuesNonDecreasing ==
    \A i \in 2..Len(Values) : Values[i - 1] <= Values[i]

\* C27 (as claimed): getSortino returns 0, and does not throw, when no
\* change against the predecessor is negative, which the claim takes to be
\* so for every non-decreasing series; only otherwise it returns the mean
\* of the changes after the first entry over the square root of the mean
\* squared negative change.
C27_ZeroWhenNonDecreasing ==
    (pc = "getSortino" /\ IsArrayOfNumbers) =>
        /\ result.status = "returned"
        /\ (Falls = {} \/ ValuesNonDecreasing) => result.value = FromInt(0)
        /\ ~(Falls = {} \/ ValuesNonDecreasing) =>
              result.value = OverRoot(MeanChange, MathSqrt(MeanSquareOfFalls))

\* C27 (amended): getSortino returns 0, and does not throw, when no change
\* against the predecessor is negative, which is so for constant series,
\* non-decreasing series of values >= 0, one-element and empty series;
\* otherwise (also for a non-decreasing series with a negative value that
\* rises) it returns the mean of the changes after the first entry over the
\* square root of the mean squared negative change.
C27_Sortino ==
    (pc = "getSortino" /\ IsArrayOfNumbers) =>
        /\ result.status = "returned"
        /\ Falls = {} => result.value = FromInt(0)
        /\ (ValuesNonDecreasing /\ \A i \in 1..Len(Values) : Values[i] >= 0) =>
              result.value = FromInt(0)
        /\ (\A i \in 2..Len(Values) : Values[i] = Values[i - 1]) =>
              result.value = FromInt(0)
        /\ Falls # {} =>
              result.value = OverRoot(MeanChange, MathSqrt(MeanSquareOfFalls))

\* [-2, -1] does not decrease, yet its change -1 / -2 - 1 = -1/2 is
\* negative: mean -1/2, downside 1/2, ratio -1.
C27_Witness ==
    /\ pc = "getSortino"
    /\ IsArrayOfNumbers
    /\ Values = <<-2, -1>>
    /\ ValuesNonDecreasing
    /\ Falls = {2}
    /\ result = Returned(Finite(-1, 1))

====
